---- MODULE Spec2Model ----
(***************************************************************************)
(* Model of src/main.py: one run of analyze_player_match_history.          *)
(*                                                                         *)
(* The run is sequential: get_puuid, get_match_ids (one listing request    *)
(* per step of its paging loop), get_match_stats (one match per step of    *)
(* its loop, then the finalization), save_to_json.  Every step records the *)
(* network calls and cooldown sleeps it makes in `trace`; any call may     *)
(* come back with a non-success status.                                    *)
(***************************************************************************)
EXTENDS Integers, Sequences, FiniteSets, TLC

VARIABLES
    history,                \* the match service: the player's ranked matches, newest first
    pc,                     \* position of the run
    err,                    \* the uncaught exception that ended the run ("" if none)
    trace,                  \* network calls and sleeps, in the order they happened
    puuid,                  \* analyze_player_match_history: puuid
    match_ids,              \* get_match_ids: match_ids, then the argument of get_match_stats
    last_match_start_time,  \* get_match_ids: last_match_start_time
    i,                      \* get_match_stats: number of loop iterations finished
    puuid_team,             \* get_match_stats: puuid_team (Unbound until first assigned)
    tmp,                    \* get_match_stats: tmp, the buckets in insertion order
    valid_matches,          \* get_match_stats: valid_matches
    start_time,             \* get_match_stats: start_time (Unbound until assigned)
    end_time,               \* get_match_stats: end_time (Unbound until assigned)
    match_stats,            \* the value get_match_stats returns (<<>> before it returns)
    saved,                  \* what output.json holds (<<>>: not written)
    patch_cache,            \* lru_cache of get_latest_patch: the arguments seen
    champion_cache          \* lru_cache of get_champion_data: the arguments seen

vars == <<history, pc, err, trace, puuid, match_ids, last_match_start_time, i,
          puuid_team, tmp, valid_matches, start_time, end_time, match_stats,
          saved, patch_cache, champion_cache>>

-----------------------------------------------------------------------------
(* Bounds of the model *)

\* count=100 of the listing request, scaled down
PageSize == 2
\* longest history of the paging inputs
MaxMatches == 4
\* the clock, in seconds: matches start in seconds 0..Now
Now == 3
\* timedelta(days=365) in seconds, scaled down
Year == 2
\* longest history of the aggregation inputs
MaxAggr == 3
\* largest value of one participant statistic of the share inputs
MaxStat == 1
\* longest history of the reference-data inputs
MaxNet == 2

(* Program constants *)

MsPerSec == 1000
SecPerMin == 60
EarlySurrender == 5
BlueTeamId == 100
StatusOk == 200

\* a local variable no assignment has reached yet
Unbound == -1
\* a listing request without the endTime parameter
NoEnd == -1
\* the puuid the account service answers get_puuid with
Target == "me"

-----------------------------------------------------------------------------
(* Network: every request, its cooldown and its status check *)

Call(kind, ok, count) == [ev |-> "call", kind |-> kind, ok |-> ok, count |-> count]
Sleep(kind) == [ev |-> "sleep", kind |-> kind, ok |-> TRUE, count |-> 0]
Req(kind, count) == [kind |-> kind, count |-> count]

\* time.sleep(1) follows requests.get in the Riot API wrappers only
Sleeps(kind) == kind \in {"puuid", "name", "rank", "list", "match"}

\* assert res.status_code == 200
\* variant: get_match_data without its assert
AssertsStatusNoMatch(kind, status) == kind # "match" /\ status # StatusOk
AssertsStatus(kind, status) == status # StatusOk

\* the non-success statuses a collaborator may answer with
BadStatuses == {429}

\* the events of a handler that makes the requests `calls` in order, the
\* k-th of them (none if k = 0) answered with status `bad`
RECURSIVE Issue(_, _, _, _)
Issue(calls, k, bad, idx) ==
    IF idx > Len(calls) THEN <<>>
    ELSE LET c == calls[idx]
             status == IF idx = k THEN bad ELSE StatusOk
             evs == <<Call(c.kind, status = StatusOk, IF status = StatusOk THEN c.count ELSE 0)>>
                    \o (IF Sleeps(c.kind) THEN <<Sleep(c.kind)>> ELSE <<>>)
         IN IF AssertsStatus(c.kind, status) THEN evs
            ELSE evs \o Issue(calls, k, bad, idx + 1)

Aborted(calls, k, bad) == k # 0 /\ AssertsStatus(calls[k].kind, bad)

-----------------------------------------------------------------------------
(* Reference data and raw match records *)

\* champion.json: champion id -> name
ChampionData == [id \in {1, 2, 3} |-> CASE id = 1 -> "Ahri" [] id = 2 -> "Zed" [] OTHER -> "Lux"]

\* versions.json[0]
LatestPatch == <<15, 12, 1>>

\* one entry of info["participants"], with the fields main.py reads
Participant(p, teamId, championId, hasRiotId, gold, dealt, taken, vision, kills, assists) ==
    [puuid |-> p, teamId |-> teamId, championId |-> championId, hasRiotId |-> hasRiotId,
     goldEarned |-> gold, totalDamageDealtToChampions |-> dealt, totalDamageTaken |-> taken,
     visionScore |-> vision, kills |-> kills, deaths |-> 1, assists |-> assists,
     totalMinionsKilled |-> 1, neutralMinionsKilled |-> 1]

Mate(p, teamId, championId) == Participant(p, teamId, championId, TRUE, 1, 1, 1, 1, 1, 1)

\* the rosters of a match: the target player on team `side` (0: on neither)
Roster(side, me) ==
    CASE side = BlueTeamId -> <<me, Mate("a", BlueTeamId, 3), Mate("b", 200, 99)>>
      [] side = 200 -> <<Mate("a", BlueTeamId, 3), me, Mate("b", 200, 99)>>
      [] OTHER -> <<Mate("a", BlueTeamId, 3), Mate("b", 200, 99)>>

\* a raw match record (metadata and info of the match service's payload)
RawMatch(id, ts, duration, version, win0, participants) ==
    [matchId |-> id, gameStartTimestamp |-> ts, gameDuration |-> duration,
     gameVersion |-> version, win0 |-> win0, participants |-> participants]

-----------------------------------------------------------------------------
(* The match service *)

\* the listing endpoint's window: startTime inclusive, endTime exclusive, in seconds
\* variant: endTime inclusive
InWindowInclusiveEnd(m, startTime, endTime) ==
    LET s == m.gameStartTimestamp \div MsPerSec
    IN startTime <= s /\ (endTime = NoEnd \/ s <= endTime)
InWindow(m, startTime, endTime) ==
    LET s == m.gameStartTimestamp \div MsPerSec
    IN startTime <= s /\ (endTime = NoEnd \/ s < endTime)

RECURSIVE Listed(_, _, _, _)
Listed(h, idx, startTime, endTime) ==
    IF idx > Len(h) THEN <<>>
    ELSE (IF InWindow(h[idx], startTime, endTime) THEN <<h[idx].matchId>> ELSE <<>>)
         \o Listed(h, idx + 1, startTime, endTime)

Take(s, n) == SubSeq(s, 1, IF Len(s) < n THEN Len(s) ELSE n)

\* GET .../matches/by-puuid/{puuid}/ids?startTime=..&endTime=..&start=0&count=100
ListMatchIds(h, startTime, endTime) == Take(Listed(h, 1, startTime, endTime), PageSize)

\* GET .../matches/{match_id}: match ids are positions in the history
get_match_data(h, match_id) == h[match_id]

one_year_ago == Now - Year

-----------------------------------------------------------------------------
(* format_match_data *)

\* ".".join(info["gameVersion"].split(".")[:2])
PatchOf(version) == SubSeq(version, 1, 2)

get_champion_name(champion_id) ==
    IF champion_id \notin DOMAIN ChampionData THEN "" ELSE ChampionData[champion_id]

TeamIndex(p) == IF p.teamId = BlueTeamId THEN 0 ELSE 1

Summoner(p) ==
    [puuid |-> p.puuid,
     champion |-> [id |-> p.championId,
                   name |-> get_champion_name(p.championId),
                   kills |-> p.kills, deaths |-> p.deaths, assists |-> p.assists,
                   gold |-> p.goldEarned,
                   cs |-> p.totalMinionsKilled + p.neutralMinionsKilled,
                   vision_score |-> p.visionScore,
                   damage_dealt_to_champions |-> p.totalDamageDealtToChampions,
                   damage_taken |-> p.totalDamageTaken]]

RECURSIVE TeamOf(_, _, _)
TeamOf(ps, idx, team) ==
    IF idx > Len(ps) THEN <<>>
    ELSE (IF TeamIndex(ps[idx]) = team THEN <<Summoner(ps[idx])>> ELSE <<>>)
         \o TeamOf(ps, idx + 1, team)

Duration(seconds) == seconds \div SecPerMin

\* teams[1] is the code's teams[0], teams[2] its teams[1]
format_match_data(m) ==
    [match_id |-> m.matchId,
     start_time |-> m.gameStartTimestamp \div MsPerSec,
     duration |-> Duration(m.gameDuration),
     patch |-> PatchOf(m.gameVersion),
     wining_team |-> IF m.win0 THEN 0 ELSE 1,
     teams |-> <<TeamOf(m.participants, 1, 0), TeamOf(m.participants, 1, 1)>>]

\* the requests format_match_data makes: the name fallback of each participant,
\* and the reference data on the first miss of the two lru_caches
RECURSIVE FormatCalls(_, _, _, _, _)
FormatCalls(ps, idx, patch, pcache, ccache) ==
    IF idx > Len(ps) THEN <<>>
    ELSE (IF ~ps[idx].hasRiotId THEN <<Req("name", 0)>> ELSE <<>>)
         \o (IF patch \notin pcache THEN <<Req("patch", 0)>> ELSE <<>>)
         \o (IF LatestPatch \notin ccache THEN <<Req("champion", 0)>> ELSE <<>>)
         \o FormatCalls(ps, idx + 1, patch, pcache \cup {patch}, ccache \cup {LatestPatch})

-----------------------------------------------------------------------------
(* get_match_stats: the per-match reduction *)

\* the default-factory value of tmp, under its champion name
NewBucket(name) ==
    [name |-> name, wins |-> 0, matches |-> 0, kills |-> 0, deaths |-> 0,
     assists |-> 0, cs |-> 0, gold_share |-> <<>>,
     damage_dealt_to_champions_share |-> <<>>, damage_taken_share |-> <<>>,
     vision_score_share |-> <<>>, kill_participation |-> <<>>]

HasKey(t, name) == \E b \in 1..Len(t) : t[b].name = name
KeyIndex(t, name) == CHOOSE b \in 1..Len(t) : t[b].name = name

\* tmp[champion_name], created on first access
Touch(t, name) == IF HasKey(t, name) THEN t ELSE Append(t, NewBucket(name))

OnTeam(team, p) == \E s \in 1..Len(team) : team[s].puuid = p

\* "Find which team this puuid belongs to": the last assignment wins, and
\* puuid_team keeps its previous value when the player is on neither team
FindTeam(md, p, previous) ==
    IF OnTeam(md.teams[2], p) THEN 1
    ELSE IF OnTeam(md.teams[1], p) THEN 0
    ELSE previous

RECURSIVE SumOf(_, _, _)
SumOf(team, idx, field) ==
    IF idx > Len(team) THEN 0
    ELSE team[idx].champion[field] + SumOf(team, idx + 1, field)

TeamTotals(team) ==
    [gold |-> SumOf(team, 1, "gold"),
     damage_dealt_to_champions |-> SumOf(team, 1, "damage_dealt_to_champions"),
     damage_taken |-> SumOf(team, 1, "damage_taken"),
     vision_score |-> SumOf(team, 1, "vision_score"),
     kills |-> SumOf(team, 1, "kills")]

\* the second "early surrender" test: gold is not among the totals it looks at
Degenerate(totals) ==
    \/ totals.damage_dealt_to_champions = 0
    \/ totals.damage_taken = 0
    \/ totals.vision_score = 0
    \/ totals.kills = 0

\* variant: duration < 5
SkipsAsEarlyBelow(md) == md.duration < EarlySurrender
SkipsAsEarly(md) == md.duration <= EarlySurrender

\* variant: the win counted whatever the winning team
IsWinAlways(team, md) == TRUE
IsWin(team, md) == team = md.wining_team

\* the body of "if summoner['puuid'] == puuid": the counters first, then the five
\* shares in the code's order; x / team_gold raises when team_gold is zero, with
\* the counters already updated.  A share is the pair <<dividend, divisor>>.
Collect(t, summoner, team, md, totals) ==
    LET c == summoner.champion
        t1 == IF IsWin(team, md)
              THEN LET u == Touch(t, c.name)
                   IN [u EXCEPT ![KeyIndex(u, c.name)].wins = @ + 1]
              ELSE t
        t2 == Touch(t1, c.name)
        k == KeyIndex(t2, c.name)
        t3 == [t2 EXCEPT ![k].matches = @ + 1, ![k].kills = @ + c.kills,
                         ![k].deaths = @ + c.deaths, ![k].assists = @ + c.assists,
                         ![k].cs = @ + c.cs]
    IN IF totals.gold = 0 THEN [tmp |-> t3, err |-> "ZeroDivisionError"]
       ELSE [tmp |-> [t3 EXCEPT
                ![k].gold_share = Append(@, <<c.gold, totals.gold>>),
                ![k].damage_dealt_to_champions_share =
                    Append(@, <<c.damage_dealt_to_champions, totals.damage_dealt_to_champions>>),
                ![k].damage_taken_share = Append(@, <<c.damage_taken, totals.damage_taken>>),
                ![k].vision_score_share = Append(@, <<c.vision_score, totals.vision_score>>),
                ![k].kill_participation = Append(@, <<c.kills + c.assists, totals.kills>>)],
             err |-> ""]

\* "collect this ppuid's champion stats": every roster entry of the player
RECURSIVE CollectTeam(_, _, _, _, _, _, _)
CollectTeam(t, roster, idx, p, team, md, totals) ==
    IF idx > Len(roster) THEN [tmp |-> t, err |-> ""]
    ELSE IF roster[idx].puuid # p THEN CollectTeam(t, roster, idx + 1, p, team, md, totals)
    ELSE LET r == Collect(t, roster[idx], team, md, totals)
         IN IF r.err # "" THEN r
            ELSE CollectTeam(r.tmp, roster, idx + 1, p, team, md, totals)

-----------------------------------------------------------------------------
(* get_match_stats: the finalization *)

\* round(n / d, 2) in hundredths: to the nearest, an exact half to the even
\* neighbour (Python rounds the binary quotient; the two agree wherever the
\* quotient is no exact half, and on the halves a binary float holds exactly)
Round2(n, d) ==
    LET q == (100 * n) \div d
        r == (100 * n) % d
    IN IF 2 * r < d THEN q
       ELSE IF 2 * r > d THEN q + 1
       ELSE IF q % 2 = 0 THEN q ELSE q + 1

\* sum(shares), as one fraction
RECURSIVE SumShares(_, _)
SumShares(shares, idx) ==
    IF idx > Len(shares) THEN <<0, 1>>
    ELSE LET rest == SumShares(shares, idx + 1)
         IN <<shares[idx][1] * rest[2] + rest[1] * shares[idx][2], shares[idx][2] * rest[2]>>

\* round(sum(shares) / len(shares), 2)
AvgShare(shares) ==
    LET sum == SumShares(shares, 1) IN Round2(sum[1], sum[2] * Len(shares))

Finalized(b) ==
    [name |-> b.name, wins |-> b.wins, matches |-> b.matches,
     win_rate |-> Round2(b.wins, b.matches),
     avg_kills |-> Round2(b.kills, b.matches),
     avg_deaths |-> Round2(b.deaths, b.matches),
     avg_assists |-> Round2(b.assists, b.matches),
     avg_cs |-> Round2(b.cs, b.matches),
     avg_gold_share |-> AvgShare(b.gold_share),
     avg_damage_dealt_to_champions_share |-> AvgShare(b.damage_dealt_to_champions_share),
     avg_damage_taken_share |-> AvgShare(b.damage_taken_share),
     avg_vision_score_share |-> AvgShare(b.vision_score_share),
     avg_kill_participation |-> AvgShare(b.kill_participation)]

\* key=lambda x: (x[1]["matches"], x[1]["wins"]), compared for reverse=True
\* variant: the key without wins
KeyAboveMatchesOnly(a, b) == a.matches > b.matches
KeyAbove(a, b) == a.matches > b.matches \/ (a.matches = b.matches /\ a.wins > b.wins)

\* sorted(..., reverse=True) is stable: an item goes before the first item whose
\* key is strictly below its own
RECURSIVE InsertSorted(_, _, _)
InsertSorted(s, x, idx) ==
    IF idx > Len(s) THEN Append(s, x)
    ELSE IF KeyAbove(x, s[idx])
         THEN SubSeq(s, 1, idx - 1) \o <<x>> \o SubSeq(s, idx, Len(s))
         ELSE InsertSorted(s, x, idx + 1)

RECURSIVE Sorted(_, _, _)
Sorted(items, idx, acc) ==
    IF idx > Len(items) THEN acc
    ELSE Sorted(items, idx + 1, InsertSorted(acc, items[idx], 1))

\* the league service's entries for the player, and get_summoner_rank's reading
LeagueEntries == <<[tier |-> "GOLD", rank |-> "IV"]>>
get_summoner_rank(entries) ==
    IF Len(entries) = 0 THEN "" ELSE <<entries[1].tier, entries[1].rank>>

BuildStats(t, valid, start, end) ==
    [metadata |-> [name |-> <<"AD KING", "LYON">>,
                   rank |-> get_summoner_rank(LeagueEntries),
                   start_time |-> start, end_time |-> end,
                   unique_champions |-> Len(t), matches |-> valid],
     champions |-> Sorted([b \in 1..Len(t) |-> Finalized(t[b])], 1, <<>>)]

-----------------------------------------------------------------------------
(* Inputs: the histories the match service may hold *)

Versions == {<<15, 11, 1>>, <<15, 11, 2>>, <<15, 12, 1>>}

Plain == Participant(Target, BlueTeamId, 1, TRUE, 1, 1, 1, 1, 1, 1)

\* paging inputs: any start times, newest first, several in one second allowed
TimeStamps == {sec * MsPerSec + ms : sec \in 0..Now, ms \in {0, MsPerSec - 1}}
PagingHistories(n) ==
    {[id \in 1..n |-> RawMatch(id, f[id], 6 * SecPerMin, <<15, 11, 1>>, TRUE,
                               Roster(BlueTeamId, Plain))] :
       f \in {g \in [1..n -> TimeStamps] : \A a \in 1..(n - 1) : g[a] >= g[a + 1]}}

\* the start time of the id-th newest match when no two share a second
Spread(id) == (IF Now - id + 1 > one_year_ago THEN Now - id + 1 ELSE one_year_ago) * MsPerSec

\* aggregation inputs: a match is an early surrender, or one without the player,
\* or one with the player on either team, winning or not, on either champion
AggrMatches ==
    {[duration |-> 6 * SecPerMin - 1, side |-> BlueTeamId, win0 |-> TRUE, champion |-> 1],
     [duration |-> 6 * SecPerMin, side |-> 0, win0 |-> TRUE, champion |-> 1]}
    \cup [duration : {6 * SecPerMin}, side : {BlueTeamId, 200}, win0 : BOOLEAN,
          champion : {1, 2}]
AggrHistories(n) ==
    {[id \in 1..n |->
         RawMatch(id, Spread(id), f[id].duration, <<15, 11, 1>>, f[id].win0,
                  Roster(f[id].side,
                         Participant(Target, f[id].side, f[id].champion, TRUE,
                                     1, 1, 1, 1, 1, 1)))] :
       f \in [1..n -> AggrMatches]}

\* share inputs: one match, any statistics of the player, any level of the team mate's
Stat == 0..MaxStat
ShareHistories(mate) ==
    {<<RawMatch(1, Now * MsPerSec, 6 * SecPerMin, <<15, 11, 1>>, TRUE,
                <<Participant(Target, BlueTeamId, 1, TRUE, me[1], me[2], me[3], me[4], me[5], me[6]),
                  Participant("a", BlueTeamId, 3, TRUE, mate, mate, mate, mate, mate, mate),
                  Mate("b", 200, 99)>>)>> :
       me \in [1..6 -> Stat]}

\* reference-data inputs: any game versions, embedded display names present or not
NetHistories(n) ==
    {[id \in 1..n |->
         RawMatch(id, Spread(id), 6 * SecPerMin, f[id].version, TRUE,
                  Roster(BlueTeamId,
                         Participant(Target, BlueTeamId, 1, f[id].hasRiotId,
                                     1, 1, 1, 1, 1, 1)))] :
       f \in [1..n -> [version : Versions, hasRiotId : BOOLEAN]]}

\* the histories a run may meet
IsInput(h) ==
    \E family \in 1..4 :
        CASE family = 1 -> \E n \in 0..MaxMatches : h \in PagingHistories(n)
          [] family = 2 -> \E n \in 0..MaxAggr : h \in AggrHistories(n)
          [] family = 3 -> \E mate \in Stat : h \in ShareHistories(mate)
          [] OTHER -> \E n \in 0..MaxNet : h \in NetHistories(n)

-----------------------------------------------------------------------------
(* The run *)

\* the state analyze_player_match_history starts in
Fresh ==
    /\ pc = "start"
    /\ err = ""
    /\ trace = <<>>
    /\ puuid = ""
    /\ match_ids = <<>>
    /\ last_match_start_time = Unbound
    /\ i = 0
    /\ puuid_team = Unbound
    /\ tmp = <<>>
    /\ valid_matches = 0
    /\ start_time = Unbound
    /\ end_time = Unbound
    /\ match_stats = <<>>
    /\ saved = <<>>
    /\ patch_cache = {}
    /\ champion_cache = {}

Init == IsInput(history) /\ Fresh

\* the runs over the paging inputs alone
PagingInit == (\E n \in 0..MaxMatches : history \in PagingHistories(n)) /\ Fresh

Faults(calls) == {<<0, StatusOk>>} \cup ((1..Len(calls)) \X BadStatuses)

\* the run ends at a failed status check
Abort(calls, f) ==
    /\ trace' = trace \o Issue(calls, f[1], f[2], 1)
    /\ pc' = "aborted"
    /\ err' = "AssertionError"
    /\ UNCHANGED <<history, puuid, match_ids, last_match_start_time, i, puuid_team, tmp,
                   valid_matches, start_time, end_time, match_stats, saved, patch_cache,
                   champion_cache>>

\* puuid = get_puuid(name=name, tag=tag)
get_puuid ==
    /\ pc = "start"
    /\ LET calls == <<Req("puuid", 0)>>
       IN \E f \in Faults(calls) :
            IF Aborted(calls, f[1], f[2]) THEN Abort(calls, f)
            ELSE /\ trace' = trace \o Issue(calls, f[1], f[2], 1)
                 /\ puuid' = Target
                 /\ pc' = "ids"
                 /\ UNCHANGED <<history, err, match_ids, last_match_start_time, i, puuid_team,
                                tmp, valid_matches, start_time, end_time, match_stats, saved,
                                patch_cache, champion_cache>>

\* the start timestamp of the oldest match of a batch, in seconds
OldestStart(h, batch) == get_match_data(h, batch[Len(batch)]).gameStartTimestamp \div MsPerSec

\* get_match_ids up to its while loop: the first listing request
get_match_ids_first ==
    /\ pc = "ids"
    /\ LET last_batch == ListMatchIds(history, one_year_ago, NoEnd)
           calls == <<Req("list", Len(last_batch))>>
                    \o (IF last_batch # <<>> THEN <<Req("match", 0)>> ELSE <<>>)
       IN \E f \in Faults(calls) :
            IF Aborted(calls, f[1], f[2]) THEN Abort(calls, f)
            ELSE /\ trace' = trace \o Issue(calls, f[1], f[2], 1)
                 /\ match_ids' = last_batch
                 /\ IF last_batch # <<>>
                    THEN /\ last_match_start_time' = OldestStart(history, last_batch)
                         /\ pc' = "paging"
                    ELSE /\ pc' = "stats"
                         /\ UNCHANGED last_match_start_time
                 /\ UNCHANGED <<history, err, puuid, i, puuid_team, tmp, valid_matches,
                                start_time, end_time, match_stats, saved, patch_cache,
                                champion_cache>>

ContinuesPaging(last, cutoff) == last > cutoff

\* variant: the loop without its break
BreaksOnNever(last_batch) == FALSE
BreaksOn(last_batch) == last_batch = <<>>

\* one pass of the while loop of get_match_ids, from its condition on
get_match_ids_loop ==
    /\ pc = "paging"
    /\ IF ~ContinuesPaging(last_match_start_time, one_year_ago)
       THEN /\ pc' = "stats"
            /\ UNCHANGED <<history, err, trace, puuid, match_ids, last_match_start_time, i,
                           puuid_team, tmp, valid_matches, start_time, end_time, match_stats,
                           saved, patch_cache, champion_cache>>
       ELSE LET last_batch == ListMatchIds(history, one_year_ago, last_match_start_time)
                calls == <<Req("list", Len(last_batch))>>
                         \o (IF last_batch # <<>> THEN <<Req("match", 0)>> ELSE <<>>)
            IN \E f \in Faults(calls) :
                 IF Aborted(calls, f[1], f[2]) THEN Abort(calls, f)
                 ELSE /\ trace' = trace \o Issue(calls, f[1], f[2], 1)
                      /\ IF BreaksOn(last_batch)
                         THEN /\ pc' = "stats"
                              /\ UNCHANGED <<err, match_ids, last_match_start_time>>
                         ELSE IF last_batch = <<>>
                         THEN \* last_batch[-1] of an empty list
                              /\ pc' = "crashed"
                              /\ err' = "IndexError"
                              /\ match_ids' = match_ids
                              /\ UNCHANGED last_match_start_time
                         ELSE /\ match_ids' = match_ids \o last_batch
                              /\ last_match_start_time' = OldestStart(history, last_batch)
                              /\ pc' = "paging"
                              /\ UNCHANGED err
                      /\ UNCHANGED <<history, puuid, i, puuid_team, tmp, valid_matches,
                                     start_time, end_time, match_stats, saved, patch_cache,
                                     champion_cache>>

\* one pass of the for loop of get_match_stats: the match match_ids[i]
get_match_stats_loop ==
    /\ pc = "stats"
    /\ i < Len(match_ids)
    /\ LET raw == get_match_data(history, match_ids[i + 1])
           md == format_match_data(raw)
           calls == <<Req("match", 0)>>
                    \o FormatCalls(raw.participants, 1, md.patch, patch_cache, champion_cache)
           team == FindTeam(md, puuid, puuid_team)
           totals == TeamTotals(md.teams[team + 1])
           r == CollectTeam(tmp, md.teams[team + 1], 1, puuid, team, md, totals)
       IN \E f \in Faults(calls) :
            IF Aborted(calls, f[1], f[2]) THEN Abort(calls, f)
            ELSE /\ trace' = trace \o Issue(calls, f[1], f[2], 1)
                 /\ patch_cache' = patch_cache \cup {md.patch}
                 /\ champion_cache' = champion_cache \cup {LatestPatch}
                 /\ end_time' = IF i = 0 THEN md.start_time ELSE end_time
                 /\ start_time' = IF i = Len(match_ids) - 1 THEN md.start_time ELSE start_time
                 /\ IF SkipsAsEarly(md)
                    THEN /\ i' = i + 1
                         /\ UNCHANGED <<pc, err, puuid_team, tmp, valid_matches>>
                    ELSE IF team = Unbound
                    THEN \* match_data["teams"][puuid_team] before any assignment
                         /\ pc' = "crashed"
                         /\ err' = "UnboundLocalError"
                         /\ UNCHANGED <<i, puuid_team, tmp, valid_matches>>
                    ELSE IF Degenerate(totals)
                    THEN /\ i' = i + 1
                         /\ puuid_team' = team
                         /\ UNCHANGED <<pc, err, tmp, valid_matches>>
                    ELSE /\ puuid_team' = team
                         /\ valid_matches' = valid_matches + 1
                         /\ tmp' = r.tmp
                         /\ IF r.err # ""
                            THEN /\ pc' = "crashed"
                                 /\ err' = r.err
                                 /\ UNCHANGED i
                            ELSE /\ i' = i + 1
                                 /\ UNCHANGED <<pc, err>>
                 /\ UNCHANGED <<history, puuid, match_ids, last_match_start_time,
                                match_stats, saved>>

\* get_match_stats after its loop ("Format output" to the return)
get_match_stats_finish ==
    /\ pc = "stats"
    /\ i = Len(match_ids)
    /\ LET calls == <<Req("name", 0), Req("rank", 0)>>
       IN \E f \in Faults(calls) :
            IF Aborted(calls, f[1], f[2]) THEN Abort(calls, f)
            ELSE /\ trace' = trace \o Issue(calls, f[1], f[2], 1)
                 /\ IF start_time = Unbound \/ end_time = Unbound
                    THEN \* "start_time": start_time with no match processed
                         /\ pc' = "crashed"
                         /\ err' = "UnboundLocalError"
                         /\ UNCHANGED match_stats
                    ELSE /\ match_stats' = <<BuildStats(tmp, valid_matches, start_time, end_time)>>
                         /\ pc' = "save"
                         /\ UNCHANGED err
                 /\ UNCHANGED <<history, puuid, match_ids, last_match_start_time, i,
                                puuid_team, tmp, valid_matches, start_time, end_time, saved,
                                patch_cache, champion_cache>>

\* save_to_json(result)
save_to_json ==
    /\ pc = "save"
    /\ saved' = match_stats
    /\ pc' = "done"
    /\ UNCHANGED <<history, err, trace, puuid, match_ids, last_match_start_time, i,
                   puuid_team, tmp, valid_matches, start_time, end_time, match_stats,
                   patch_cache, champion_cache>>

Next ==
    \/ get_puuid
    \/ get_match_ids_first
    \/ get_match_ids_loop
    \/ get_match_stats_loop
    \/ get_match_stats_finish
    \/ save_to_json

Spec == Init /\ [][Next]_vars

\* the run is one sequential process: get_puuid and the steps of get_match_ids
\* are taken whenever they can be
FairSpec ==
    /\ PagingInit /\ [][Next]_vars
    /\ WF_vars(get_puuid) /\ WF_vars(get_match_ids_first) /\ WF_vars(get_match_ids_loop)

-----------------------------------------------------------------------------
(* Vocabulary of the properties *)

StartSecond(id) == history[id].gameStartTimestamp \div MsPerSec

\* the numbers of ids the listing requests answered so far returned, in order
RECURSIVE BatchSizes(_, _)
BatchSizes(t, idx) ==
    IF idx > Len(t) THEN <<>>
    ELSE (IF t[idx].ev = "call" /\ t[idx].kind = "list" /\ t[idx].ok
          THEN <<t[idx].count>> ELSE <<>>)
         \o BatchSizes(t, idx + 1)

\* the match the next pass of the loop of get_match_stats works on
Current == format_match_data(get_match_data(history, match_ids[i + 1]))

IsShort(id) == history[id].gameDuration \div SecPerMin <= EarlySurrender

RECURSIVE TotalOf(_, _, _)
TotalOf(t, idx, field) ==
    IF idx > Len(t) THEN 0 ELSE t[idx][field] + TotalOf(t, idx + 1, field)

AllShares(b) ==
    {b.gold_share[n] : n \in 1..Len(b.gold_share)}
    \cup {b.damage_dealt_to_champions_share[n] : n \in 1..Len(b.damage_dealt_to_champions_share)}
    \cup {b.damage_taken_share[n] : n \in 1..Len(b.damage_taken_share)}
    \cup {b.vision_score_share[n] : n \in 1..Len(b.vision_score_share)}
    \cup {b.kill_participation[n] : n \in 1..Len(b.kill_participation)}

-----------------------------------------------------------------------------
(* C1 *)

\* C1: the sequence get_match_ids builds never holds a match id twice
NoDuplicateIds ==
    \A a, b \in 1..Len(match_ids) : a # b => match_ids[a] # match_ids[b]

\* get_match_ids returned ids of more than one batch, the oldest match of the
\* first batch sharing its second with its neighbour
PagedAcrossSharedSecond ==
    /\ pc = "stats"
    /\ Len(match_ids) > PageSize
    /\ StartSecond(match_ids[PageSize]) = StartSecond(match_ids[PageSize - 1])

(* C2 *)

\* C2: once get_match_ids has returned, every match of the history that started
\* at or after the cutoff is among the ids it returned
CoversWindow ==
    pc = "stats" =>
        \A id \in 1..Len(history) :
            StartSecond(id) >= one_year_ago => \E a \in 1..Len(match_ids) : match_ids[a] = id

(* C3 *)

\* get_match_ids comes to an end
FetchTerminates == <>(pc \notin {"start", "ids", "paging"})

\* the loop goes round again only after a non-empty batch fetched while the
\* oldest start time seen was still after the cutoff
LoopGoesOn ==
    pc = "paging" /\ pc' = "paging" =>
        /\ last_match_start_time > one_year_ago
        /\ Len(match_ids') > Len(match_ids)

\* a full batch followed by an empty one: get_match_ids has returned the full
\* batch, and no third listing request is ever made
FullThenEmpty ==
    LET sizes == BatchSizes(trace, 1)
    IN (Len(sizes) >= 2 /\ sizes[1] = PageSize /\ sizes[2] = 0) =>
         /\ Len(sizes) = 2
         /\ pc \notin {"ids", "paging"}
         /\ err # "IndexError"
         /\ Len(match_ids) = PageSize

\* C3: get_match_ids terminates; its loop ends at the first empty batch or once
\* the oldest start time of the last batch is not after the cutoff; a full batch
\* then an empty one means two listing requests and the full batch returned
FetchEnds == FetchTerminates /\ [][LoopGoesOn]_vars /\ []FullThenEmpty

FullThenEmptyReturned ==
    /\ pc = "stats"
    /\ BatchSizes(trace, 1) = <<PageSize, 0>>
    /\ Len(match_ids) = PageSize

(* C4 *)

\* a pass of the loop over a match of at most 5 minutes leaves tmp and
\* valid_matches as they were
ShortMatchStep ==
    (pc = "stats" /\ i < Len(match_ids) /\ i' = i + 1 /\ Current.duration <= EarlySurrender) =>
        tmp' = tmp /\ valid_matches' = valid_matches

\* get_match_stats's reduction of the matches `ids`, none of them tested for
\* its duration: the buckets, the count, the team index, the exception if any
RECURSIVE Reduced(_, _, _)
Reduced(ids, idx, acc) ==
    IF idx > Len(ids) \/ acc.err # "" THEN acc
    ELSE LET md == format_match_data(get_match_data(history, ids[idx]))
             team == FindTeam(md, puuid, acc.team)
             totals == TeamTotals(md.teams[team + 1])
             r == CollectTeam(acc.tmp, md.teams[team + 1], 1, puuid, team, md, totals)
         IN IF team = Unbound THEN [acc EXCEPT !.err = "UnboundLocalError"]
            ELSE IF Degenerate(totals) THEN Reduced(ids, idx + 1, [acc EXCEPT !.team = team])
            ELSE Reduced(ids, idx + 1,
                         [tmp |-> r.tmp, valid |-> acc.valid + 1, team |-> team, err |-> r.err])

IsLong(id) == ~IsShort(id)

\* between two passes of the loop, tmp and valid_matches are what the reduction
\* gives for the matches passed so far with those of at most 5 minutes removed
AsIfRemoved ==
    pc \in {"stats", "save", "done"} =>
        LET ref == Reduced(SelectSeq(SubSeq(match_ids, 1, i), IsLong), 1,
                           [tmp |-> <<>>, valid |-> 0, team |-> Unbound, err |-> ""])
        IN ref.err = "" /\ tmp = ref.tmp /\ valid_matches = ref.valid

\* C4: a match of duration <= 5 changes no champion bucket and is not counted
EarlySurrenderIgnored == [][ShortMatchStep]_vars /\ []AsIfRemoved

\* a short match has just been passed over, with a bucket already there
ShortAfterCounted ==
    /\ pc = "stats"
    /\ i >= 2
    /\ IsShort(match_ids[i])
    /\ valid_matches >= 1
    /\ Len(tmp) >= 1

(* C5 *)

\* C5: every share get_match_stats computes for a qualifying match has a
\* non-zero divisor and lies in [0, 1]
SharesInUnitInterval ==
    /\ err # "ZeroDivisionError"
    /\ \A b \in 1..Len(tmp) : \A share \in AllShares(tmp[b]) :
          share[2] > 0 /\ 0 <= share[1] /\ share[1] <= share[2]

(* C6 *)

BucketsCounted ==
    \A b \in 1..Len(tmp) : tmp[b].matches >= 1 /\ 0 <= tmp[b].wins /\ tmp[b].wins <= tmp[b].matches

\* a pass of the loop adds a win only for a match whose winning team is the
\* team the player is on
WinStep ==
    (pc = "stats" /\ i < Len(match_ids) /\ TotalOf(tmp', 1, "wins") > TotalOf(tmp, 1, "wins")) =>
        OnTeam(Current.teams[Current.wining_team + 1], puuid)

\* the reported win_rate (in hundredths) is within half a hundredth of wins/matches
WinRateRounded ==
    \A r \in 1..Len(match_stats) : \A c \in 1..Len(match_stats[r].champions) :
        LET ch == match_stats[r].champions[c]
            off == ch.win_rate * ch.matches - 100 * ch.wins
        IN 2 * off <= ch.matches /\ -2 * off <= ch.matches

\* C6: every bucket has matches >= 1 and 0 <= wins <= matches, wins grow only on
\* matches the player's team won, and win_rate is wins/matches to 2 decimals
BucketsSound == []BucketsCounted /\ [][WinStep]_vars /\ []WinRateRounded

\* a champion played three times and won twice is reported
TwoOfThreeReported ==
    \E r \in 1..Len(match_stats) : \E c \in 1..Len(match_stats[r].champions) :
        /\ match_stats[r].champions[c].matches = 3
        /\ match_stats[r].champions[c].wins = 2

(* C7 *)

\* C7: champions are reported by descending matches, ties by descending wins
ChampionsOrdered ==
    \A r \in 1..Len(match_stats) :
        LET ch == match_stats[r].champions
        IN \A a, b \in 1..Len(ch) :
              a < b => \/ ch[a].matches > ch[b].matches
                       \/ ch[a].matches = ch[b].matches /\ ch[a].wins >= ch[b].wins

\* two champions with as many matches: the one met second won more and is
\* reported first
TieBrokenByWins ==
    \E r \in 1..Len(match_stats) :
        LET ch == match_stats[r].champions
        IN /\ Len(ch) = 2
           /\ ch[1].matches = ch[2].matches
           /\ ch[1].wins > ch[2].wins
           /\ tmp[1].name = ch[2].name

(* C8 *)

\* C8: after a call answered with a non-success status the run is aborted, no
\* further call is in the trace, and output.json is not written
FailFast ==
    \A a \in 1..Len(trace) :
        (trace[a].ev = "call" /\ ~trace[a].ok) =>
            /\ pc = "aborted"
            /\ saved = <<>>
            /\ \A b \in (a + 1)..Len(trace) : trace[b].ev # "call"

\* the reference-data request of a later match failed, counted matches are lost
FailedMidAggregation ==
    /\ pc = "aborted"
    /\ valid_matches >= 1
    /\ trace[Len(trace)].kind = "patch"
    /\ ~trace[Len(trace)].ok

(* C9 *)

\* C9: every call in the trace but the last event is followed by its cooldown
CooldownBetweenCalls ==
    \A a \in 1..(Len(trace) - 1) : trace[a].ev = "call" => trace[a + 1].ev = "sleep"

(* C10 *)

\* C10: in the returned result, metadata matches is the sum of the champions'
\* matches and unique_champions is the number of champions
AccountingBalanced ==
    \A r \in 1..Len(match_stats) :
        /\ match_stats[r].metadata.matches = TotalOf(match_stats[r].champions, 1, "matches")
        /\ match_stats[r].metadata.unique_champions = Len(match_stats[r].champions)

====
